---- MODULE Spec2Model ----
(***************************************************************************)
(* A model of filestore/retrieve.py: the module-level handler registry,    *)
(* the three boltons LRU caches (datum, resource, handler), get_data /     *)
(* get_spec_handler, register_handler / deregister_handler and the         *)
(* handler_context context manager.                                        *)
(*                                                                         *)
(* An LRU is a sequence of <<key, value>> pairs, least recently used       *)
(* first.  The document store (the Resource and Datum collections) is      *)
(* immutable: the module only reads it.                                    *)
(***************************************************************************)
EXTENDS Integers, Sequences, FiniteSets, TLC

VARIABLES
    h_registry,      \* _h_registry: spec -> handler class, None when absent
    DATUM_CACHE,     \* _DATUM_CACHE
    HANDLER_CACHE,   \* _HANDLER_CACHE
    RESOURCE_CACHE,  \* _RESOURCE_CACHE
    opened,          \* every handler instance constructed so far
    closed,          \* handler instances whose close() has been called
    scopes,          \* the active handler_context generators, innermost last
    lastOp,          \* the call that ran last, and what it did
    calls            \* per thread: the get_data call in progress and its locals

vars == <<h_registry, DATUM_CACHE, HANDLER_CACHE, RESOURCE_CACHE, opened, closed,
          scopes, lastOp, calls>>

None == "None"

(***************************************************************************)
(* Bounds of the model.  boltons' default max_size is 128 and the datum    *)
(* cache is built with max_size=1000000; the handler and datum caches are  *)
(* scaled down so that the model reaches a full cache.  The resource cache *)
(* keeps the default size: with three resource ids it never fills.         *)
(***************************************************************************)
HandlerCacheMax == 2
DatumCacheMax == 2
\* handler instances constructed in one run
MaxInstances == 4
\* handler_context scopes active at once
MaxScopes == 1
MaxNested == 2
ResourceCacheMax == 128

(***************************************************************************)
(* The environment: specs, handler classes, the document store.            *)
(***************************************************************************)
Specs == {"FMT_A", "FMT_B"}
SpecOrder == <<"FMT_A", "FMT_B">>

\* Ha and Hb are two distinct classes that are both called "H".
Handlers == {"Ha", "Hb", "G"}
HandlerName(h) == IF h = "G" THEN "G" ELSE "H"

ResourceIds == {"R1", "R2", "RX"}
StoredResources == {"R1", "R2"}
ResourceDoc(rid) ==
    IF rid = "R1"
    THEN [id |-> "R1", spec |-> "FMT_A", resource_path |-> "/d/a.dat",
          resource_kwargs |-> "fmt=a"]
    ELSE [id |-> "R2", spec |-> "FMT_B", resource_path |-> "/d/b.dat",
          resource_kwargs |-> "fmt=b"]

\* The Datum collection, in the order a find() returns its documents.
DatumDocs ==
    << [datum_id |-> "D1", resource |-> "R1", datum_kwargs |-> 0],
       [datum_id |-> "D2", resource |-> "R1", datum_kwargs |-> 4],
       [datum_id |-> "D3", resource |-> "R1", datum_kwargs |-> 8],
       [datum_id |-> "D4", resource |-> "R2", datum_kwargs |-> 0],
       [datum_id |-> "D5", resource |-> "R2", datum_kwargs |-> 4] >>
EventIds == {"D1", "D2", "D3", "D4", "D5", "no-such-id"}

\* G cannot open /d/b.dat: its constructor raises there.
CtorRaises(h, rpath, kwargs) == h = "G" /\ rpath = "/d/b.dat"

(***************************************************************************)
(* boltons.cacheutils.LRU, as the module uses it.                          *)
(***************************************************************************)
RECURSIVE SeqWithout(_, _)
SeqWithout(s, k) ==
    IF s = <<>> THEN <<>>
    ELSE IF Head(s)[1] = k THEN SeqWithout(Tail(s), k)
    ELSE <<Head(s)>> \o SeqWithout(Tail(s), k)

LRUKeys(c) == {c[i][1] : i \in 1..Len(c)}
LRUHas(c, k) == k \in LRUKeys(c)
LRUValue(c, k) == LET i == CHOOSE j \in 1..Len(c) : c[j][1] = k IN c[i][2]
LRUValues(c) == {c[i][2] : i \in 1..Len(c)}
\* c[k] on a hit: the entry becomes the most recently used
LRUTouch(c, k) == Append(SeqWithout(c, k), <<k, LRUValue(c, k)>>)
\* c[k] = v for a key that is not in c: a full cache drops its least recently used entry
LRUSet(c, k, v, max_size) ==
    IF LRUHas(c, k) THEN Append(SeqWithout(c, k), <<k, v>>)
    ELSE IF Len(c) < max_size THEN Append(c, <<k, v>>) ELSE Append(Tail(c), <<k, v>>)
\* del c[k]
LRUDel(c, k) == SeqWithout(c, k)

(***************************************************************************)
(* HandlerRegistry (a dict subclass).  A registry is a function from the   *)
(* specs to Handlers \cup {None}; None stands for "key not in the dict".   *)
(* Each method returns the registry it leaves and what it returned/raised. *)
(***************************************************************************)
EmptyRegistry == [s \in Specs |-> None]

\* HandlerRegistry.register_handler without the duplicate check: it always
\* installs the handler
HandlerRegistry_register_handler_unchecked(reg, key, handler, overwrite) ==
    [reg |-> [reg EXCEPT ![key] = handler], err |-> None]

\* registering that reports success without storing the handler
HandlerRegistry_register_handler_no_store(reg, key, handler, overwrite) ==
    [reg |-> reg, err |-> None]

HandlerRegistry_register_handler(reg, key, handler, overwrite) ==
    IF (~overwrite) /\ reg[key] # None
    THEN IF reg[key] = handler
         THEN [reg |-> reg, err |-> None]
         ELSE [reg |-> reg, err |-> "DuplicateHandler"]
    ELSE [reg |-> [reg EXCEPT ![key] = handler], err |-> None]

HandlerRegistry_deregister_handler(reg, key) ==
    [reg |-> [reg EXCEPT ![key] = None], ret |-> reg[key]]

(***************************************************************************)
(* The module-level functions work on the pair (registry, handler cache).  *)
(* g is [reg, hc, gone]: gone collects the handler instances that were     *)
(* deleted from the handler cache.                                         *)
(***************************************************************************)
\* DelByName with the invalidation matching the resource id of the key
\* (k[0]) against the name instead of the handler type (k[1])
RECURSIVE DelByName_wrong_field(_, _, _)
DelByName_wrong_field(hc, keys, name) ==
    IF keys = <<>> THEN hc
    ELSE IF Head(keys)[1] = name
         THEN DelByName_wrong_field(LRUDel(hc, Head(keys)), Tail(keys), name)
         ELSE DelByName_wrong_field(hc, Tail(keys), name)

\* for k in list(_HANDLER_CACHE): if k[1] == name: del _HANDLER_CACHE[k]
RECURSIVE DelByName(_, _, _)
DelByName(hc, keys, name) ==
    IF keys = <<>> THEN hc
    ELSE IF Head(keys)[2] = name
         THEN DelByName(LRUDel(hc, Head(keys)), Tail(keys), name)
         ELSE DelByName(hc, Tail(keys), name)

KeyList(c) == [i \in 1..Len(c) |-> c[i][1]]

deregister_handler(g, key) ==
    LET r == HandlerRegistry_deregister_handler(g.reg, key)
        handler == r.ret
    IN  IF handler # None
        THEN LET hc2 == DelByName(g.hc, KeyList(g.hc), HandlerName(handler))
             IN  [reg |-> r.reg, hc |-> hc2,
                  gone |-> g.gone \cup (LRUValues(g.hc) \ LRUValues(hc2)),
                  err |-> None]
        ELSE [reg |-> r.reg, hc |-> g.hc, gone |-> g.gone, err |-> None]

register_handler(g, key, handler, overwrite) ==
    LET r == HandlerRegistry_register_handler(g.reg, key, handler, FALSE)
    IN  IF r.err = None
        THEN [reg |-> r.reg, hc |-> g.hc, gone |-> g.gone, err |-> None]
        ELSE IF overwrite
             THEN LET d == deregister_handler(g, key)
                      r2 == HandlerRegistry_register_handler(d.reg, key, handler, FALSE)
                  IN  [reg |-> r2.reg, hc |-> d.hc, gone |-> d.gone, err |-> r2.err]
             ELSE [reg |-> g.reg, hc |-> g.hc, gone |-> g.gone, err |-> r.err]

(***************************************************************************)
(* handler_context.  temp_handlers is a function from the specs to         *)
(* Handlers \cup {None} (None: the spec is not a key of the dict); its     *)
(* items are visited in SpecOrder.  The generator's locals remove_list and *)
(* replace_list live in the scope's frame between entry and exit.          *)
(***************************************************************************)
TempKeys(temp_handlers) ==
    SelectSeq(SpecOrder, LAMBDA k : temp_handlers[k] # None)

\* lines 117-125: the loop before the yield
RECURSIVE context_enter(_, _, _)
context_enter(f, keys, temp_handlers) ==
    IF keys = <<>> THEN f
    ELSE LET k == Head(keys)
             v == temp_handlers[k]
             absent == f.g.reg[k] = None
             popped == [f.g EXCEPT !.reg = [f.g.reg EXCEPT ![k] = None]]
         IN  context_enter(
                 [g |-> register_handler(IF absent THEN f.g ELSE popped, k, v, FALSE),
                  remove_list |-> IF absent THEN Append(f.remove_list, k)
                                  ELSE f.remove_list,
                  replace_list |-> IF absent THEN f.replace_list
                                   ELSE Append(f.replace_list, <<k, f.g.reg[k]>>)],
                 Tail(keys), temp_handlers)

\* lines 128-129
RECURSIVE context_remove(_, _)
context_remove(g, remove_list) ==
    IF remove_list = <<>> THEN g
    ELSE context_remove(deregister_handler(g, Head(remove_list)), Tail(remove_list))

\* context_replace with a rollback that takes the override out and forgets to
\* put the prior handler back
RECURSIVE context_replace_forgets(_, _)
context_replace_forgets(g, replace_list) ==
    IF replace_list = <<>> THEN g
    ELSE context_replace_forgets(deregister_handler(g, Head(replace_list)[1]),
                                 Tail(replace_list))

\* lines 130-132
RECURSIVE context_replace(_, _)
context_replace(g, replace_list) ==
    IF replace_list = <<>> THEN g
    ELSE LET k == Head(replace_list)[1]
             v == Head(replace_list)[2]
         IN  context_replace(register_handler(deregister_handler(g, k), k, v, FALSE),
                             Tail(replace_list))

\* a rollback that restores the replaced handlers and leaves the added specs
\* registered
context_exit_keeps_added(g, remove_list, replace_list) ==
    context_replace(g, replace_list)

context_exit(g, remove_list, replace_list) ==
    context_replace(context_remove(g, remove_list), replace_list)

(***************************************************************************)
(* get_spec_handler and get_data.  A handler instance is the record of the *)
(* constructor call that made it: its class, the resource it was made for, *)
(* the arguments, and n, the serial number of the call among those of that *)
(* class with that path.                                                   *)
(* Calling the instance with the datum kwargs is opaque: the payload is    *)
(* recorded as the pair of the instance called and the kwargs it got.      *)
(***************************************************************************)
\* _resource_on_miss: find_one returns None when no document has that _id
\* (NoResource stands for Python's None)
NoResource == [id |-> None, spec |-> None, resource_path |-> None,
               resource_kwargs |-> None]
resource_on_miss(k) == IF k \in StoredResources THEN ResourceDoc(k) ELSE NoResource

\* _RESOURCE_CACHE[resource]: on a miss the LRU stores whatever on_miss returned
ResourceCacheGet(rc, k) ==
    IF LRUHas(rc, k)
    THEN [rc |-> LRUTouch(rc, k), val |-> LRUValue(rc, k), queries |-> 0]
    ELSE [rc |-> LRUSet(rc, k, resource_on_miss(k), ResourceCacheMax),
          val |-> resource_on_miss(k), queries |-> 1]

NoHandler == [cls |-> None, rid |-> None, rpath |-> None, kwargs |-> None, n |-> 0]

Serial(opn, handler, rpath) ==
    1 + Cardinality({i \in opn : i.cls = handler /\ i.rpath = rpath})

\* lines 222-231, with got the outcome of line 220
get_spec_handler_for(got, hc, opn, handle_registry) ==
    LET resource == got.val
        fail(e, called) ==
            [rc |-> got.rc, hc |-> hc, opened |-> opn, err |-> e, ret |-> NoHandler,
             rq |-> got.queries, ctor |-> called, gone |-> {}, over |-> FALSE]
    IN  IF resource = NoResource THEN fail("TypeError", FALSE)
        ELSE LET handler == handle_registry[resource.spec] IN
             IF handler = None THEN fail("KeyError", FALSE)
             ELSE LET key == <<resource.id, HandlerName(handler)>> IN
                  IF LRUHas(hc, key)
                  THEN [rc |-> got.rc, hc |-> LRUTouch(hc, key), opened |-> opn,
                        err |-> None, ret |-> LRUValue(hc, key), rq |-> got.queries,
                        ctor |-> FALSE, gone |-> {}, over |-> FALSE]
                  ELSE IF CtorRaises(handler, resource.resource_path,
                                     resource.resource_kwargs)
                       THEN fail("CtorError", TRUE)
                       ELSE LET ret == [cls |-> handler, rid |-> resource.id,
                                        rpath |-> resource.resource_path,
                                        kwargs |-> resource.resource_kwargs,
                                        n |-> Serial(opn, handler,
                                                     resource.resource_path)]
                                hc2 == LRUSet(hc, key, ret, HandlerCacheMax)
                            IN  [rc |-> got.rc, hc |-> hc2,
                                 opened |-> opn \cup {ret},
                                 err |-> None, ret |-> ret, rq |-> got.queries,
                                 ctor |-> TRUE,
                                 gone |-> LRUValues(hc) \ LRUValues(hc2),
                                 over |-> Cardinality(opn) >= MaxInstances]

\* get_spec_handler that leaves a placeholder in the handler cache when the
\* constructor raised
get_spec_handler_caching_failure(rc, hc, opn, resource_id, handle_registry) ==
    LET got == ResourceCacheGet(rc, resource_id)
        r == get_spec_handler_for(got, hc, opn, handle_registry)
    IN  IF r.err = "CtorError"
        THEN [r EXCEPT !.hc = LRUSet(hc, <<got.val.id,
                                           HandlerName(handle_registry[got.val.spec])>>,
                                     NoHandler, HandlerCacheMax)]
        ELSE r

\* get_spec_handler that falls back to the module-level registry for the specs
\* the handle_registry argument lacks
get_spec_handler_fallback(rc, hc, opn, resource_id, handle_registry) ==
    get_spec_handler_for(ResourceCacheGet(rc, resource_id), hc, opn,
                         [s \in Specs |-> IF handle_registry[s] # None
                                          THEN handle_registry[s] ELSE h_registry[s]])

get_spec_handler(rc, hc, opn, resource_id, handle_registry) ==
    get_spec_handler_for(ResourceCacheGet(rc, resource_id), hc, opn, handle_registry)

\* d_objs.find_one({'datum_id': eid}); NoDatum stands for Python's None
NoDatum == [datum_id |-> None, resource |-> None, datum_kwargs |-> -1]
\* find_one that answers an unknown id with the first document of the collection
DatumFindOne_any(eid) ==
    LET hits == SelectSeq(DatumDocs, LAMBDA d : d.datum_id = eid)
    IN  IF hits = <<>> THEN Head(DatumDocs) ELSE Head(hits)

DatumFindOne(eid) ==
    LET hits == SelectSeq(DatumDocs, LAMBDA d : d.datum_id = eid)
    IN  IF hits = <<>> THEN NoDatum ELSE Head(hits)

\* d_objs.find({'resource': res})
DatumFind(res) == SelectSeq(DatumDocs, LAMBDA d : d.resource = res)

DatumEntry(doc) == [datum_kwargs |-> doc.datum_kwargs, resource |-> doc.resource]

\* Prefetch that stops after the first document of the resource
Prefetch_first_only(dc, docs) ==
    IF docs = <<>> \/ LRUHas(dc, Head(docs).datum_id) THEN dc
    ELSE LRUSet(dc, Head(docs).datum_id,
                [datum_kwargs |-> Head(docs).datum_kwargs,
                 resource |-> Head(docs).resource], DatumCacheMax)

\* lines 271-275: the prefetch loop
RECURSIVE Prefetch(_, _)
Prefetch(dc, docs) ==
    IF docs = <<>> THEN dc
    ELSE LET dd == Head(docs)
             d_id == dd.datum_id
         IN  Prefetch(IF ~LRUHas(dc, d_id)
                      THEN LRUSet(dc, d_id, DatumEntry(dd), DatumCacheMax)
                      ELSE dc,
                      Tail(docs))

\* a lookup that reads the datum back from the cache after the prefetch loop
DatumLookup_reread(dc, eid) ==
    IF LRUHas(dc, eid)
    THEN [dc |-> LRUTouch(dc, eid), datum |-> LRUValue(dc, eid), err |-> None,
          dq |-> 0, warn |-> FALSE]
    ELSE LET edoc == DatumFindOne(eid)
             dc2 == Prefetch(dc, DatumFind(edoc.resource))
         IN
         IF edoc = NoDatum
         THEN [dc |-> dc, datum |-> DatumEntry(NoDatum), err |-> "DoesNotExist", dq |-> 1,
               warn |-> FALSE]
         ELSE IF LRUHas(dc2, eid)
         THEN [dc |-> dc2, datum |-> LRUValue(dc2, eid), err |-> None, dq |-> 2,
               warn |-> Len(DatumFind(edoc.resource)) > DatumCacheMax]
         ELSE [dc |-> dc2, datum |-> DatumEntry(NoDatum), err |-> "KeyError", dq |-> 2,
               warn |-> Len(DatumFind(edoc.resource)) > DatumCacheMax]

\* lines 257-278: the datum, the datum cache it leaves, and the queries it made
DatumLookup(dc, eid) ==
    IF LRUHas(dc, eid)
    THEN [dc |-> LRUTouch(dc, eid), datum |-> LRUValue(dc, eid), err |-> None,
          dq |-> 0, warn |-> FALSE]
    ELSE LET edoc == DatumFindOne(eid) IN
         IF edoc = NoDatum
         THEN [dc |-> dc, datum |-> DatumEntry(NoDatum), err |-> "DoesNotExist", dq |-> 1,
               warn |-> FALSE]
         ELSE [dc |-> Prefetch(dc, DatumFind(edoc.resource)),
               datum |-> DatumEntry(edoc), err |-> None, dq |-> 2,
               warn |-> Len(DatumFind(edoc.resource)) > DatumCacheMax]

NoPayload == [handler |-> NoHandler, kwargs |-> -1]

\* lines 280-281, with d the outcome of lines 257-278 and h that of line 280
get_data_call(d, h) ==
    [dc |-> d.dc, rc |-> h.rc, hc |-> h.hc, opened |-> h.opened, err |-> h.err,
     ret |-> IF h.err = None
             THEN [handler |-> h.ret, kwargs |-> d.datum.datum_kwargs]
             ELSE NoPayload,
     dq |-> d.dq, rq |-> h.rq, ctor |-> h.ctor, gone |-> h.gone, over |-> h.over,
     warn |-> d.warn]

get_data_for(d, rc, hc, opn, handle_registry) ==
    IF d.err # None
    THEN [dc |-> d.dc, rc |-> rc, hc |-> hc, opened |-> opn, err |-> d.err,
          ret |-> NoPayload, dq |-> d.dq, rq |-> 0, ctor |-> FALSE, gone |-> {},
          over |-> FALSE, warn |-> d.warn]
    ELSE get_data_call(d, get_spec_handler(rc, hc, opn, d.datum.resource,
                                           handle_registry))

get_data(dc, rc, hc, opn, eid, handle_registry) ==
    get_data_for(DatumLookup(dc, eid), rc, hc, opn, handle_registry)

(***************************************************************************)
(* The state machine: one action per public call.  The caller is a single  *)
(* thread of control, so with-blocks nest: the scope left is the innermost.*)
(***************************************************************************)
Global == "global"

\* the handle_registry arguments the callers pass: None (the module-level
\* registry) or a dict of their own
Overrides == {"A_to_G"}
OverrideRegistry(via) == [s \in Specs |-> IF s = "FMT_A" THEN "G" ELSE None]

\* the temp_handlers dicts the callers pass to handler_context
TempChoices ==
    { [s \in Specs |-> IF s = "FMT_A" THEN "Hb" ELSE None],
      [s \in Specs |-> IF s = "FMT_A" THEN "G" ELSE "Ha"] }

\* a scope's frame holds the generator's locals and, as history that no action
\* reads, the registry at the scope's entry (entry) and the registry at the
\* entry of the first of the scopes that were open then (base)
NoFrame == [temp_handlers |-> EmptyRegistry, remove_list |-> <<>>, replace_list |-> <<>>,
            entry |-> EmptyRegistry, base |-> EmptyRegistry]

\* the threads that call get_data at the same time, and a thread's locals:
\* pc is the line it has reached, eid its argument, datum, todo (the documents
\* the prefetch loop has yet to visit), resource, handler and inst its local
\* variables, err and ret what its last call raised or returned
Threads == {1, 2}
NoCall == [pc |-> "idle", eid |-> None, datum |-> DatumEntry(NoDatum), todo |-> <<>>,
           resource |-> NoResource, handler |-> None, inst |-> NoHandler,
           err |-> None, ret |-> NoPayload]
NoCalls == [t \in Threads |-> NoCall]

Op(op, key, h, ow, via, err, ret, dq, rq, ctor, gone, warn, frame) ==
    [op |-> op, key |-> key, h |-> h, ow |-> ow, via |-> via, err |-> err, ret |-> ret,
     dq |-> dq, rq |-> rq, ctor |-> ctor, gone |-> gone, warn |-> warn, frame |-> frame]

Init ==
    /\ h_registry = EmptyRegistry
    /\ DATUM_CACHE = <<>>
    /\ HANDLER_CACHE = <<>>
    /\ RESOURCE_CACHE = <<>>
    /\ opened = {}
    /\ closed = {}
    /\ scopes = <<>>
    /\ calls = NoCalls
    /\ lastOp = Op("init", None, None, FALSE, Global, None, NoPayload, 0, 0, FALSE, {},
                   FALSE, NoFrame)

G0 == [reg |-> h_registry, hc |-> HANDLER_CACHE, gone |-> {}, err |-> None]

RegisterDone(key, handler, overwrite, g) ==
    /\ h_registry' = g.reg
    /\ HANDLER_CACHE' = g.hc
    /\ lastOp' = Op("register", key, handler, overwrite, Global, g.err, NoPayload, 0, 0,
                    FALSE, g.gone, FALSE, NoFrame)
    /\ UNCHANGED <<DATUM_CACHE, RESOURCE_CACHE, opened, closed, scopes, calls>>

Register(key, handler, overwrite) ==
    RegisterDone(key, handler, overwrite, register_handler(G0, key, handler, overwrite))

DeregisterDone(key, g) ==
    /\ h_registry' = g.reg
    /\ HANDLER_CACHE' = g.hc
    /\ lastOp' = Op("deregister", key, h_registry[key], FALSE, Global, g.err, NoPayload,
                    0, 0, FALSE, g.gone, FALSE, NoFrame)
    /\ UNCHANGED <<DATUM_CACHE, RESOURCE_CACHE, opened, closed, scopes, calls>>

Deregister(key) == DeregisterDone(key, deregister_handler(G0, key))

Effective(via) == IF via = Global THEN h_registry ELSE OverrideRegistry(via)

GetSpecHandlerDone(resource_id, via, r) ==
    /\ ~r.over
    /\ RESOURCE_CACHE' = r.rc
    /\ HANDLER_CACHE' = r.hc
    /\ opened' = r.opened
    /\ lastOp' = Op("get_spec_handler", resource_id, None, FALSE, via, r.err,
                    [handler |-> r.ret, kwargs |-> -1], 0, r.rq, r.ctor, r.gone,
                    FALSE, NoFrame)
    /\ UNCHANGED <<h_registry, DATUM_CACHE, closed, scopes, calls>>

GetSpecHandler(resource_id, via) ==
    GetSpecHandlerDone(resource_id, via,
                       get_spec_handler(RESOURCE_CACHE, HANDLER_CACHE, opened,
                                        resource_id, Effective(via)))

GetDataDone(eid, via, r) ==
    /\ ~r.over
    /\ DATUM_CACHE' = r.dc
    /\ RESOURCE_CACHE' = r.rc
    /\ HANDLER_CACHE' = r.hc
    /\ opened' = r.opened
    /\ lastOp' = Op("get_data", eid, None, FALSE, via, r.err, r.ret, r.dq, r.rq, r.ctor,
                    r.gone, r.warn, NoFrame)
    /\ UNCHANGED <<h_registry, closed, scopes, calls>>

GetData(eid, via) ==
    GetDataDone(eid, via,
                get_data(DATUM_CACHE, RESOURCE_CACHE, HANDLER_CACHE, opened, eid,
                         Effective(via)))

\* with handler_context(temp_handlers): the code up to the yield, for a caller
\* that keeps fewer than depth scopes open
EnterTo(temp_handlers, depth) ==
    LET f == context_enter([g |-> G0, remove_list |-> <<>>, replace_list |-> <<>>],
                           TempKeys(temp_handlers), temp_handlers)
        frame == [temp_handlers |-> temp_handlers, remove_list |-> f.remove_list,
                  replace_list |-> f.replace_list, entry |-> h_registry,
                  base |-> IF scopes = <<>> THEN h_registry ELSE scopes[1].base]
    IN
    /\ Len(scopes) < depth
    /\ h_registry' = f.g.reg
    /\ HANDLER_CACHE' = f.g.hc
    /\ scopes' = Append(scopes, frame)
    /\ lastOp' = Op("enter", None, None, FALSE, Global, None, NoPayload, 0, 0, FALSE,
                    f.g.gone, FALSE, frame)
    /\ UNCHANGED <<DATUM_CACHE, RESOURCE_CACHE, opened, closed, calls>>

Enter(temp_handlers) == EnterTo(temp_handlers, MaxScopes)

\* the i-th of the open scopes ends normally: its generator resumes after the
\* yield with its own remove_list and replace_list
ExitAt(i) ==
    /\ i \in 1..Len(scopes)
    /\ LET frame == scopes[i]
           g == context_exit(G0, frame.remove_list, frame.replace_list)
       IN  /\ h_registry' = g.reg
           /\ HANDLER_CACHE' = g.hc
           /\ lastOp' = Op("exit", None, None, FALSE, Global, None, NoPayload, 0, 0,
                           FALSE, g.gone, FALSE, frame)
    /\ scopes' = [j \in 1..(Len(scopes) - 1) |->
                     IF j < i THEN scopes[j] ELSE scopes[j + 1]]
    /\ UNCHANGED <<DATUM_CACHE, RESOURCE_CACHE, opened, closed, calls>>

\* the with-block ends normally: with-blocks nest, the scope left is the
\* innermost
ExitNormal ==
    /\ scopes # <<>>
    /\ ExitAt(Len(scopes))

\* the with-block raises: the exception is thrown into the generator at the
\* yield, which no try/finally guards, so lines 128-132 do not run
ExitRaise ==
    /\ scopes # <<>>
    /\ lastOp' = Op("exit_raise", None, None, FALSE, Global, "BodyError", NoPayload, 0, 0,
                    FALSE, {}, FALSE, scopes[Len(scopes)])
    /\ scopes' = SubSeq(scopes, 1, Len(scopes) - 1)
    /\ UNCHANGED <<h_registry, DATUM_CACHE, HANDLER_CACHE, RESOURCE_CACHE, opened, closed,
                   calls>>

Next ==
    \/ \E key \in Specs, handler \in Handlers, overwrite \in BOOLEAN :
          Register(key, handler, overwrite)
    \/ \E key \in Specs : Deregister(key)
    \/ \E resource_id \in ResourceIds, via \in {Global} \cup Overrides :
          GetSpecHandler(resource_id, via)
    \/ \E eid \in EventIds, via \in {Global} \cup Overrides : GetData(eid, via)
    \/ \E temp_handlers \in TempChoices : Enter(temp_handlers)
    \/ ExitNormal
    \/ ExitRaise

\* every call, in any order
Spec == Init /\ [][Next]_vars

(***************************************************************************)
(* The specifications the properties are checked under: each is a caller   *)
(* that uses a part of the interface.                                      *)
(***************************************************************************)
\* a caller that registers, deregisters and opens handler_context scopes
NextScope ==
    \/ \E key \in Specs, handler \in Handlers, overwrite \in BOOLEAN :
          Register(key, handler, overwrite)
    \/ \E key \in Specs : Deregister(key)
    \/ \E temp_handlers \in TempChoices : Enter(temp_handlers)
    \/ ExitNormal
    \/ ExitRaise

SpecScope == Init /\ [][NextScope]_vars

\* a caller that registers and deregisters between resolutions: it has Ha, Hb
\* and G for FMT_A, and Hb and G for FMT_B
RegistryEvents == {"D1", "D4"}
RegistryHandlers(key) == IF key = "FMT_A" THEN {"Ha", "Hb", "G"} ELSE {"Hb", "G"}

NextRegistry ==
    \/ \E key \in Specs, overwrite \in BOOLEAN :
          \E handler \in RegistryHandlers(key) : Register(key, handler, overwrite)
    \/ \E key \in Specs : Deregister(key)
    \/ \E eid \in RegistryEvents : GetData(eid, Global)

SpecRegistry == Init /\ [][NextRegistry]_vars

\* a caller that only resolves: the handlers were registered beforehand and
\* the registry is not touched again
RegisteredChoices ==
    { [s \in Specs |-> "Ha"],
      [s \in Specs |-> IF s = "FMT_A" THEN "Ha" ELSE "G"],
      [s \in Specs |-> IF s = "FMT_A" THEN None ELSE "Ha"] }

InitResolve ==
    /\ h_registry \in RegisteredChoices
    /\ DATUM_CACHE = <<>>
    /\ HANDLER_CACHE = <<>>
    /\ RESOURCE_CACHE = <<>>
    /\ opened = {}
    /\ closed = {}
    /\ scopes = <<>>
    /\ calls = NoCalls
    /\ lastOp = Op("init", None, None, FALSE, Global, None, NoPayload, 0, 0, FALSE, {},
                   FALSE, NoFrame)

NextResolve ==
    \E eid \in EventIds, via \in {Global} \cup Overrides : GetData(eid, via)

SpecResolve == InitResolve /\ [][NextResolve]_vars

\* a caller of get_spec_handler, under the same registries
NextHandler ==
    \E resource_id \in ResourceIds, via \in {Global} \cup Overrides :
        GetSpecHandler(resource_id, via)

SpecHandler == InitResolve /\ [][NextHandler]_vars

\* a caller that registers only the specs that are not registered, any handler
\* for any spec, and deregisters and resolves in between
RegisterNew(key, handler, overwrite) ==
    /\ h_registry[key] = None
    /\ Register(key, handler, overwrite)

NextFresh ==
    \/ \E key \in Specs, handler \in Handlers, overwrite \in BOOLEAN :
          RegisterNew(key, handler, overwrite)
    \/ \E key \in Specs : Deregister(key)
    \/ \E eid \in RegistryEvents : GetData(eid, Global)

SpecFresh == Init /\ [][NextFresh]_vars

\* a caller that registers Ha or G, deregisters, and resolves resources inside
\* and outside of handler_context scopes that end normally
ShadowHandlers == {"Ha", "G"}
ShadowResources == {"R1", "R2"}

NextShadow ==
    \/ \E key \in Specs, handler \in ShadowHandlers : Register(key, handler, FALSE)
    \/ \E key \in Specs : Deregister(key)
    \/ \E temp_handlers \in TempChoices : Enter(temp_handlers)
    \/ ExitNormal
    \/ \E resource_id \in ShadowResources : GetSpecHandler(resource_id, Global)

SpecShadow == Init /\ [][NextShadow]_vars

\* callers that only open handler_context scopes, up to MaxNested at once,
\* over a registry that was filled beforehand
NestChoices == TempChoices \cup {[s \in Specs |-> IF s = "FMT_B" THEN "G" ELSE None]}
NestRegistries == [Specs -> {None, "Ha", "G"}]

InitNest ==
    /\ h_registry \in NestRegistries
    /\ DATUM_CACHE = <<>>
    /\ HANDLER_CACHE = <<>>
    /\ RESOURCE_CACHE = <<>>
    /\ opened = {}
    /\ closed = {}
    /\ scopes = <<>>
    /\ calls = NoCalls
    /\ lastOp = Op("init", None, None, FALSE, Global, None, NoPayload, 0, 0, FALSE, {},
                   FALSE, NoFrame)

\* with-blocks inside with-blocks: the scope left is the innermost
NextNest ==
    \/ \E temp_handlers \in NestChoices : EnterTo(temp_handlers, MaxNested)
    \/ ExitNormal

SpecNest == InitNest /\ [][NextNest]_vars

\* scopes entered and left through __enter__ and __exit__ (or by two threads)
\* in any order: the scope left need not be the one entered last
NextOverlap ==
    \/ \E temp_handlers \in NestChoices : EnterTo(temp_handlers, MaxNested)
    \/ \E i \in 1..MaxNested : ExitAt(i)

SpecOverlap == InitNest /\ [][NextOverlap]_vars

(***************************************************************************)
(* Two threads that call get_data(eid) with the module-level registry.     *)
(* A thread runs from one operation on a shared cache to the next in one   *)
(* step: each LRU operation takes the cache's lock, and what lies between  *)
(* two of them touches only the thread's locals and the document store,    *)
(* which nobody writes.  The registry is not mutated.                      *)
(***************************************************************************)
ThreadEvents == {"D1", "D2", "D4"}

Goto(t, c) == calls' = [calls EXCEPT ![t] = c]
\* the call is over: its locals are gone, its outcome stays
Raise(t, e) == Goto(t, [NoCall EXCEPT !.eid = calls[t].eid, !.err = e])
Return(t, v) == Goto(t, [NoCall EXCEPT !.eid = calls[t].eid, !.ret = v])

\* the call starts; lines 257-259: datum = _DATUM_CACHE[eid], or KeyError
DatumCacheRead(t, eid) ==
    /\ calls[t].pc = "idle"
    /\ IF LRUHas(DATUM_CACHE, eid)
       THEN /\ DATUM_CACHE' = LRUTouch(DATUM_CACHE, eid)
            /\ Goto(t, [NoCall EXCEPT !.pc = "resource", !.eid = eid,
                                      !.datum = LRUValue(DATUM_CACHE, eid)])
       ELSE /\ DATUM_CACHE' = DATUM_CACHE
            /\ Goto(t, [NoCall EXCEPT !.pc = "find_one", !.eid = eid])
    /\ UNCHANGED <<h_registry, HANDLER_CACHE, RESOURCE_CACHE, opened, closed, scopes,
                   lastOp>>

\* lines 260-271: the two queries
FindOne(t) ==
    /\ calls[t].pc = "find_one"
    /\ LET edoc == DatumFindOne(calls[t].eid) IN
       IF edoc = NoDatum THEN Raise(t, "DoesNotExist")
       ELSE Goto(t, [calls[t] EXCEPT !.pc = "prefetch", !.datum = DatumEntry(edoc),
                                     !.todo = DatumFind(edoc.resource)])
    /\ UNCHANGED <<h_registry, DATUM_CACHE, HANDLER_CACHE, RESOURCE_CACHE, opened, closed,
                   scopes, lastOp>>

\* lines 271-274 and 276-278: the next document of the loop, or its end
PrefetchCheck(t) ==
    /\ calls[t].pc = "prefetch"
    /\ IF calls[t].todo = <<>>
       THEN Goto(t, [calls[t] EXCEPT !.pc = "resource"])
       ELSE IF LRUHas(DATUM_CACHE, Head(calls[t].todo).datum_id)
            THEN Goto(t, [calls[t] EXCEPT !.todo = Tail(calls[t].todo)])
            ELSE Goto(t, [calls[t] EXCEPT !.pc = "prefetch_store"])
    /\ UNCHANGED <<h_registry, DATUM_CACHE, HANDLER_CACHE, RESOURCE_CACHE, opened, closed,
                   scopes, lastOp>>

\* a loop body that stores the requested datum under every sibling's id
StoreEntry_requested(dc, dd, datum) == LRUSet(dc, dd.datum_id, datum, DatumCacheMax)

\* line 275, with dd the loop's document and datum the local of line 267
StoreEntry(dc, dd, datum) == LRUSet(dc, dd.datum_id, DatumEntry(dd), DatumCacheMax)

PrefetchStore(t) ==
    /\ calls[t].pc = "prefetch_store"
    /\ DATUM_CACHE' = StoreEntry(DATUM_CACHE, Head(calls[t].todo), calls[t].datum)
    /\ Goto(t, [calls[t] EXCEPT !.pc = "prefetch", !.todo = Tail(calls[t].todo)])
    /\ UNCHANGED <<h_registry, HANDLER_CACHE, RESOURCE_CACHE, opened, closed, scopes,
                   lastOp>>

\* lines 218-220: resource = _RESOURCE_CACHE[resource]
ResourceRead(t) ==
    /\ calls[t].pc = "resource"
    /\ LET got == ResourceCacheGet(RESOURCE_CACHE, calls[t].datum.resource) IN
       /\ RESOURCE_CACHE' = got.rc
       /\ Goto(t, [calls[t] EXCEPT !.pc = "check", !.resource = got.val])
    /\ UNCHANGED <<h_registry, DATUM_CACHE, HANDLER_CACHE, opened, closed, scopes,
                   lastOp>>

\* lines 222-225: the registry lookup and key in _HANDLER_CACHE
HandlerCheck(t) ==
    /\ calls[t].pc = "check"
    /\ LET resource == calls[t].resource IN
       IF resource = NoResource THEN Raise(t, "TypeError")
       ELSE LET handler == h_registry[resource.spec] IN
            IF handler = None THEN Raise(t, "KeyError")
            ELSE Goto(t, [calls[t] EXCEPT
                            !.handler = handler,
                            !.pc = IF LRUHas(HANDLER_CACHE,
                                             <<resource.id, HandlerName(handler)>>)
                                   THEN "hit" ELSE "construct"])
    /\ UNCHANGED <<h_registry, DATUM_CACHE, HANDLER_CACHE, RESOURCE_CACHE, opened, closed,
                   scopes, lastOp>>

\* line 226: return _HANDLER_CACHE[key], or KeyError when the key has gone
HandlerHit(t) ==
    /\ calls[t].pc = "hit"
    /\ LET key == <<calls[t].resource.id, HandlerName(calls[t].handler)>> IN
       IF LRUHas(HANDLER_CACHE, key)
       THEN /\ HANDLER_CACHE' = LRUTouch(HANDLER_CACHE, key)
            /\ Goto(t, [calls[t] EXCEPT !.pc = "call",
                                        !.inst = LRUValue(HANDLER_CACHE, key)])
       ELSE /\ HANDLER_CACHE' = HANDLER_CACHE
            /\ Raise(t, "KeyError")
    /\ UNCHANGED <<h_registry, DATUM_CACHE, RESOURCE_CACHE, opened, closed, scopes,
                   lastOp>>

\* lines 227-229: ret = handler(rpath, **kwargs)
Construct(t) ==
    /\ calls[t].pc = "construct"
    /\ Cardinality(opened) < MaxInstances
    /\ LET resource == calls[t].resource
           handler == calls[t].handler
           ret == [cls |-> handler, rid |-> resource.id,
                   rpath |-> resource.resource_path,
                   kwargs |-> resource.resource_kwargs,
                   n |-> Serial(opened, handler, resource.resource_path)]
       IN  IF CtorRaises(handler, resource.resource_path, resource.resource_kwargs)
           THEN opened' = opened /\ Raise(t, "CtorError")
           ELSE /\ opened' = opened \cup {ret}
                /\ Goto(t, [calls[t] EXCEPT !.pc = "store", !.inst = ret])
    /\ UNCHANGED <<h_registry, DATUM_CACHE, HANDLER_CACHE, RESOURCE_CACHE, closed, scopes,
                   lastOp>>

\* line 230: _HANDLER_CACHE[key] = ret
HandlerStore(t) ==
    /\ calls[t].pc = "store"
    /\ HANDLER_CACHE' = LRUSet(HANDLER_CACHE,
                               <<calls[t].resource.id, HandlerName(calls[t].handler)>>,
                               calls[t].inst, HandlerCacheMax)
    /\ Goto(t, [calls[t] EXCEPT !.pc = "call"])
    /\ UNCHANGED <<h_registry, DATUM_CACHE, RESOURCE_CACHE, opened, closed, scopes,
                   lastOp>>

\* line 281: return handler(**datum['datum_kwargs'])
Call(t) ==
    /\ calls[t].pc = "call"
    /\ Return(t, [handler |-> calls[t].inst, kwargs |-> calls[t].datum.datum_kwargs])
    /\ UNCHANGED <<h_registry, DATUM_CACHE, HANDLER_CACHE, RESOURCE_CACHE, opened, closed,
                   scopes, lastOp>>

NextThreads ==
    \E t \in Threads :
        \/ \E eid \in ThreadEvents : DatumCacheRead(t, eid)
        \/ FindOne(t)
        \/ PrefetchCheck(t)
        \/ PrefetchStore(t)
        \/ ResourceRead(t)
        \/ HandlerCheck(t)
        \/ HandlerHit(t)
        \/ Construct(t)
        \/ HandlerStore(t)
        \/ Call(t)

SpecThreads == InitResolve /\ [][NextThreads]_vars

(***************************************************************************)
(* Properties of handler_context (specification SpecScope).                *)
(***************************************************************************)
\* the specs a frame's temp_handlers names
FrameKeys(frame) == {k \in Specs : frame.temp_handlers[k] # None}

\* what the frame's lists say the registry held for spec k at entry
FramePrior(frame, k) ==
    IF \E i \in 1..Len(frame.replace_list) : frame.replace_list[i][1] = k
    THEN LET i == CHOOSE j \in 1..Len(frame.replace_list) : frame.replace_list[j][1] = k
         IN  frame.replace_list[i][2]
    ELSE None

\* C1: when the body of a handler_context scope raised, every spec the scope
\* overrode maps, once the scope has been left, to what it mapped to just
\* before the scope was entered (absent again, or the prior handler again).
C1_RolledBackAfterRaise ==
    lastOp.op = "exit_raise" =>
        \A k \in FrameKeys(lastOp.frame) : h_registry[k] = FramePrior(lastOp.frame, k)

\* C2: entering handler_context(temp_handlers) records for every named spec
\* what the registry held, and leaves the registry mapping each named spec s to
\* temp_handlers[s]; a normal exit leaves each named spec mapped to exactly its
\* pre-scope handler, or absent (lookup raises) if it was absent before; entry
\* and exit leave the specs that temp_handlers does not name as they were.
C2_ScopedOverride ==
    /\ [][lastOp'.op = "enter" =>
            \A k \in FrameKeys(lastOp'.frame) :
                /\ FramePrior(lastOp'.frame, k) = h_registry[k]
                /\ h_registry'[k] = lastOp'.frame.temp_handlers[k]]_vars
    /\ [](lastOp.op = "exit" =>
            \A k \in FrameKeys(lastOp.frame) :
                h_registry[k] = FramePrior(lastOp.frame, k))
    /\ [][lastOp'.op \in {"enter", "exit"} =>
            \A k \in Specs \ FrameKeys(lastOp'.frame) : h_registry'[k] = h_registry[k]]_vars

\* a scope that overrode a registered spec and added an absent one has exited
\* normally, and the registered spec maps to its prior handler again
C2_Witness ==
    /\ lastOp.op = "exit"
    /\ lastOp.frame.remove_list # <<>>
    /\ \E i \in 1..Len(lastOp.frame.replace_list) :
          LET k == lastOp.frame.replace_list[i][1]
              v == lastOp.frame.replace_list[i][2]
          IN  v # lastOp.frame.temp_handlers[k] /\ h_registry[k] = v

(***************************************************************************)
(* Properties of register_handler and deregister_handler (specification    *)
(* SpecRegistry).                                                          *)
(***************************************************************************)
LRUEntries(c) == {c[i] : i \in 1..Len(c)}
CacheKey(inst) == <<inst.rid, HandlerName(inst.cls)>>
Live == opened \ closed

\* C3: every handler instance that deregister_handler deletes from the
\* handler cache has had close() called on it.
C3_ClosedBeforeDiscard ==
    lastOp.op = "deregister" => lastOp.gone \subseteq closed

\* C4: no two live (constructed, not closed) handler instances have the same
\* (resource id, handler-type name) key.
C4_OneLivePerKey ==
    \A i, j \in Live : CacheKey(i) = CacheKey(j) => i = j

\* C5: deregister_handler(spec) of a registered spec deletes from the handler
\* cache exactly the entries whose key names the removed handler's type, for
\* every resource id, and keeps the other entries in their order; it leaves the
\* datum cache and the resource cache alone; for an absent spec it changes
\* neither the registry nor any cache.
C5_DeregisterFrame ==
    [][lastOp'.op = "deregister" =>
          LET removed == h_registry[lastOp'.key] IN
          /\ h_registry' = [h_registry EXCEPT ![lastOp'.key] = None]
          /\ DATUM_CACHE' = DATUM_CACHE
          /\ RESOURCE_CACHE' = RESOURCE_CACHE
          /\ IF removed = None
             THEN HANDLER_CACHE' = HANDLER_CACHE
             ELSE HANDLER_CACHE' =
                      SelectSeq(HANDLER_CACHE,
                                LAMBDA e : e[1][2] # HandlerName(removed))]_vars

\* a deregistration deleted the instances of one type and left an entry of
\* another type in the handler cache, with the other caches populated
C5_Witness ==
    /\ lastOp.op = "deregister"
    /\ lastOp.gone # {}
    /\ HANDLER_CACHE # <<>>
    /\ DATUM_CACHE # <<>>
    /\ RESOURCE_CACHE # <<>>

\* C6: register_handler(s, h2, overwrite=True) on a spec registered to another
\* handler h1 raises nothing, leaves s mapped to h2, leaves no handler-cache
\* entry of h1's type, and every instance it evicted has been closed.
C6_OverwriteClosesAndEvicts ==
    [][(/\ lastOp'.op = "register"
        /\ lastOp'.ow
        /\ h_registry[lastOp'.key] \notin {None, lastOp'.h}) =>
          /\ lastOp'.err = None
          /\ h_registry'[lastOp'.key] = lastOp'.h
          /\ \A e \in LRUEntries(HANDLER_CACHE') :
                e[1][2] # HandlerName(h_registry[lastOp'.key])
          /\ lastOp'.gone \subseteq closed']_vars

ResourceOf(eid) == DatumFindOne(eid).resource
StoredEvents == {DatumDocs[i].datum_id : i \in 1..Len(DatumDocs)}
Siblings(res) == {DatumDocs[i].datum_id : i \in {j \in 1..Len(DatumDocs) :
                                                    DatumDocs[j].resource = res}}

\* C8: with no registry mutation between the get_data calls, no handler class
\* is constructed a second time on the same resource.
C8_ConstructedOncePerResource ==
    \A i \in opened : i.n = 1

\* C9 as claimed: once get_data has resolved a datum of resource R, every datum
\* of R is in the datum cache.
C9_SiblingsResident ==
    (lastOp.op = "get_data" /\ lastOp.key \in StoredEvents) =>
        Siblings(ResourceOf(lastOp.key)) \subseteq LRUKeys(DATUM_CACHE)

\* the datum cache has room for the datums of res that it does not hold yet
RoomFor(res) ==
    Len(DATUM_CACHE) + Cardinality(Siblings(res) \ LRUKeys(DATUM_CACHE)) <= DatumCacheMax

\* C9 amended: a get_data that misses the datum cache on a datum of R, while
\* the cache has room for the datums of R it does not hold, leaves every datum
\* of R in the datum cache; and a get_data on a cached datum of R that comes
\* right after a get_data on a datum of R queries neither collection.
C9_PrefetchWhenRoom ==
    /\ [][(/\ lastOp'.op = "get_data"
           /\ lastOp'.key \in StoredEvents
           /\ ~LRUHas(DATUM_CACHE, lastOp'.key)
           /\ RoomFor(ResourceOf(lastOp'.key))) =>
             Siblings(ResourceOf(lastOp'.key)) \subseteq LRUKeys(DATUM_CACHE')]_vars
    /\ [][(/\ lastOp.op = "get_data"
           /\ lastOp.key \in StoredEvents
           /\ lastOp'.op = "get_data"
           /\ lastOp'.key \in Siblings(ResourceOf(lastOp.key))
           /\ LRUHas(DATUM_CACHE, lastOp'.key)) =>
             (lastOp'.dq = 0 /\ lastOp'.rq = 0)]_vars

\* get_data("D4") missed the datum cache, queried the store, and left D5, the
\* other datum of R2, in the datum cache as well
C9_Witness ==
    /\ lastOp.op = "get_data"
    /\ lastOp.key = "D4"
    /\ lastOp.err = None
    /\ lastOp.dq = 2
    /\ LRUKeys(DATUM_CACHE) = {"D4", "D5"}

\* C10: get_spec_handler on an id that no Resource document has raises
\* ResourceNotFound and leaves no entry for the id in the resource cache.
C10_MissingResourceNotCached ==
    (lastOp.op = "get_spec_handler" /\ lastOp.key \notin StoredResources) =>
        /\ lastOp.err = "ResourceNotFound"
        /\ ~LRUHas(RESOURCE_CACHE, lastOp.key)

(***************************************************************************)
(* Properties of the error paths of get_spec_handler and get_data.         *)
(***************************************************************************)
\* the handler class that a resolution of resource_id through via looks up
LookedUp(resource_id, via) == Effective(via)[ResourceDoc(resource_id).spec]

\* the constructor lines 226-228 would call for resource_id through via raises
CtorFails(resource_id, via) ==
    /\ resource_id \in StoredResources
    /\ LookedUp(resource_id, via) # None
    /\ CtorRaises(LookedUp(resource_id, via), ResourceDoc(resource_id).resource_path,
                  ResourceDoc(resource_id).resource_kwargs)

\* C11: a get_spec_handler call whose handler constructor raises passes the
\* exception on to its caller and adds no entry to the handler cache (the
\* cache and the set of constructed instances stay as they were, and the key
\* of the resource and the handler type is not in the cache); the next
\* get_spec_handler call on the same resource calls the constructor again.
C11_FailedConstructionNotCached ==
    /\ [][(lastOp'.op = "get_spec_handler" /\ lastOp'.ctor
           /\ CtorFails(lastOp'.key, lastOp'.via)) =>
             /\ lastOp'.err = "CtorError"
             /\ lastOp'.ret = NoPayload
             /\ HANDLER_CACHE' = HANDLER_CACHE
             /\ opened' = opened
             /\ ~LRUHas(HANDLER_CACHE',
                        <<lastOp'.key,
                          HandlerName(LookedUp(lastOp'.key, lastOp'.via))>>)]_vars
    /\ [][(/\ lastOp.op = "get_spec_handler"
           /\ lastOp.err = "CtorError"
           /\ lastOp'.op = "get_spec_handler"
           /\ lastOp'.key = lastOp.key
           /\ lastOp'.via = lastOp.via) =>
             (lastOp'.ctor /\ lastOp'.err = "CtorError")]_vars
    /\ [](\A resource_id \in StoredResources, via \in {Global} \cup Overrides :
             CtorFails(resource_id, via) =>
                 ~LRUHas(HANDLER_CACHE,
                         <<resource_id, HandlerName(LookedUp(resource_id, via))>>))

\* a get_spec_handler call failed in the constructor while the handler cache
\* held the instance of another resource
C11_Witness ==
    /\ lastOp.op = "get_spec_handler"
    /\ lastOp.err = "CtorError"
    /\ lastOp.ctor
    /\ CtorFails(lastOp.key, lastOp.via)
    /\ HANDLER_CACHE # <<>>

\* C12: get_data on a datum id that no Datum document has raises
\* Datum.DoesNotExist, calls no handler constructor, queries no resource, and
\* leaves the datum cache, the resource cache, the handler cache, the registry
\* and the set of constructed instances as they were.
C12_UnknownDatum ==
    [][(lastOp'.op = "get_data" /\ lastOp'.key \notin StoredEvents) =>
          /\ lastOp'.err = "DoesNotExist"
          /\ lastOp'.ret = NoPayload
          /\ ~lastOp'.ctor
          /\ lastOp'.rq = 0
          /\ DATUM_CACHE' = DATUM_CACHE
          /\ RESOURCE_CACHE' = RESOURCE_CACHE
          /\ HANDLER_CACHE' = HANDLER_CACHE
          /\ h_registry' = h_registry
          /\ opened' = opened]_vars

\* get_data on an unknown id failed while all three caches were populated
C12_Witness ==
    /\ lastOp.op = "get_data"
    /\ lastOp.key \notin StoredEvents
    /\ lastOp.err = "DoesNotExist"
    /\ DATUM_CACHE # <<>>
    /\ RESOURCE_CACHE # <<>>
    /\ HANDLER_CACHE # <<>>

(***************************************************************************)
(* Properties of the handler cache's contents.                             *)
(***************************************************************************)
\* C13: no get_data and no get_spec_handler call removes an entry from the
\* handler cache: every key cached before the call is cached after it, with
\* the same instance.
C13_ResolveKeepsEntries ==
    [][lastOp'.op \in {"get_data", "get_spec_handler"} =>
          LRUEntries(HANDLER_CACHE) \subseteq LRUEntries(HANDLER_CACHE')]_vars

(***************************************************************************)
(* Properties of get_data's result.                                        *)
(***************************************************************************)
\* the resource of the datum has more datums than the datum cache holds
Overrun(eid) == Cardinality(Siblings(ResourceOf(eid))) > DatumCacheMax

\* what get_spec_handler gives for the resource of eid in the current state
HandlerOf(eid, via) ==
    get_spec_handler(RESOURCE_CACHE, HANDLER_CACHE, opened, ResourceOf(eid),
                     Effective(via))

\* C14: a get_data that misses the datum cache on a datum whose resource has
\* more datums than the datum cache's max_size logs the warning and fails only
\* if get_spec_handler fails on the resource; otherwise it returns the result
\* of calling the handler instance that get_spec_handler gives for the
\* datum's resource with the datum_kwargs of the requested datum itself.
C14_OverrunOnlyWarns ==
    [][(/\ lastOp'.op = "get_data"
        /\ lastOp'.key \in StoredEvents
        /\ ~LRUHas(DATUM_CACHE, lastOp'.key)
        /\ Overrun(lastOp'.key)) =>
          LET h == HandlerOf(lastOp'.key, lastOp'.via) IN
          /\ lastOp'.warn
          /\ lastOp'.err = h.err
          /\ h.err = None =>
                /\ lastOp'.ret.handler = h.ret
                /\ lastOp'.ret.handler.rid = ResourceOf(lastOp'.key)
                /\ lastOp'.ret.kwargs = DatumFindOne(lastOp'.key).datum_kwargs]_vars

\* get_data succeeded on a datum that its own prefetch had already pushed
\* out of the datum cache
C14_Witness ==
    /\ lastOp.op = "get_data"
    /\ lastOp.key \in StoredEvents
    /\ Overrun(lastOp.key)
    /\ lastOp.dq = 2
    /\ lastOp.warn
    /\ lastOp.err = None
    /\ ~LRUHas(DATUM_CACHE, lastOp.key)
    /\ lastOp.ret.kwargs = DatumFindOne(lastOp.key).datum_kwargs

\* C15: get_data looks the spec of the datum's resource up in the
\* handle_registry argument when the caller passes one and in the module-level
\* registry otherwise: a handler it constructs is of the class that registry
\* maps the spec to, and when that registry lacks the spec the call raises
\* KeyError, calls no constructor and leaves the handler cache as it was.
C15_LookupInOverrideOrGlobal ==
    [][(lastOp'.op = "get_data" /\ lastOp'.key \in StoredEvents) =>
          LET looked == LookedUp(ResourceOf(lastOp'.key), lastOp'.via) IN
          /\ looked = None =>
                /\ lastOp'.err = "KeyError"
                /\ lastOp'.ret = NoPayload
                /\ ~lastOp'.ctor
                /\ opened' = opened
                /\ HANDLER_CACHE' = HANDLER_CACHE
          /\ looked # None => lastOp'.err # "KeyError"
          /\ (lastOp'.ctor /\ lastOp'.err = None) =>
                lastOp'.ret.handler.cls = looked]_vars

\* get_data with a handle_registry that lacks the resource's spec failed,
\* although the module-level registry has the spec, and the handler cache
\* held an instance
C15_Witness ==
    /\ lastOp.op = "get_data"
    /\ lastOp.key \in StoredEvents
    /\ lastOp.via # Global
    /\ lastOp.err = "KeyError"
    /\ h_registry[ResourceDoc(ResourceOf(lastOp.key)).spec] # None
    /\ HANDLER_CACHE # <<>>

(***************************************************************************)
(* Properties of registration (specification SpecFresh).                   *)
(***************************************************************************)
\* C16: register_handler(s, h), with or without overwrite, on a spec s that
\* the registry does not hold raises nothing and leaves the registry mapping
\* s to h and every other spec to what it mapped to before.
C16_RegisterThenLookup ==
    [][(lastOp'.op = "register" /\ h_registry[lastOp'.key] = None) =>
          /\ lastOp'.err = None
          /\ h_registry'[lastOp'.key] = lastOp'.h
          /\ \A s \in Specs \ {lastOp'.key} : h_registry'[s] = h_registry[s]]_vars

\* a spec was registered while the other spec was registered to another
\* handler and the handler cache held an instance
C16_Witness ==
    /\ lastOp.op = "register"
    /\ lastOp.err = None
    /\ h_registry[lastOp.key] = lastOp.h
    /\ \E s \in Specs \ {lastOp.key} : h_registry[s] \notin {None, lastOp.h}
    /\ HANDLER_CACHE # <<>>

(***************************************************************************)
(* Properties of the instance a resolution returns (specification          *)
(* SpecShadow).                                                            *)
(***************************************************************************)
\* C17: the instance a get_spec_handler call returned is of the class that
\* the registry it looked in maps the resource's spec to, and was constructed
\* from the resource's own resource_path and resource_kwargs.
C17_ReturnedByRegisteredClass ==
    (lastOp.op = "get_spec_handler" /\ lastOp.err = None) =>
        /\ lastOp.ret.handler.cls = LookedUp(lastOp.key, lastOp.via)
        /\ lastOp.ret.handler.rid = lastOp.key
        /\ lastOp.ret.handler.rpath = ResourceDoc(lastOp.key).resource_path
        /\ lastOp.ret.handler.kwargs = ResourceDoc(lastOp.key).resource_kwargs

(***************************************************************************)
(* Properties of several handler_context scopes open at once               *)
(* (specifications SpecOverlap and SpecNest).                              *)
(***************************************************************************)
\* C18: when the last of the open scopes has exited, whatever the order of
\* the exits, the registry is what it was before the first of them was
\* entered.
C18_OverlapRestoresBase ==
    (lastOp.op = "exit" /\ scopes = <<>>) => h_registry = lastOp.frame.base

\* C20: with properly nested scopes whose bodies open scopes and do nothing
\* else to the registry, every normal exit, of an inner scope while the outer
\* one is active and of the outer scope after it, leaves the registry equal
\* to what it was when the scope that exits was entered.
C20_NestedExitRestoresEntry ==
    lastOp.op = "exit" => h_registry = lastOp.frame.entry

\* an inner scope that overrode a spec its outer scope had overridden, with
\* another handler than the outer one's, has exited while the outer scope is
\* active, and the registry holds the outer scope's overrides again
C20_Witness ==
    /\ lastOp.op = "exit"
    /\ scopes # <<>>
    /\ \E k \in FrameKeys(lastOp.frame) \cap FrameKeys(scopes[Len(scopes)]) :
          /\ lastOp.frame.temp_handlers[k] # lastOp.frame.entry[k]
          /\ h_registry[k] = scopes[Len(scopes)].temp_handlers[k]
    /\ h_registry = lastOp.frame.entry
    /\ h_registry # lastOp.frame.base

(***************************************************************************)
(* Properties of concurrent get_data calls (specification SpecThreads).    *)
(***************************************************************************)
\* what the Datum collection holds for eid, in the shape of a cache entry
Stored(eid) == DatumEntry(DatumFindOne(eid))

\* C19: at every moment of every interleaving of the two threads' get_data
\* calls, every entry of the datum cache is the (resource, datum_kwargs) pair
\* the Datum collection holds for its id, the datum a call works with is the
\* pair of the id it was asked for, and a call that is over has raised only
\* if the registry lacks the spec or the constructor raised, and has otherwise
\* called an instance opened on the datum's resource with the datum_kwargs of
\* the datum it was asked for.
C19_ConsistentUnderInterleaving ==
    /\ \A i \in 1..Len(DATUM_CACHE) :
          /\ DATUM_CACHE[i][1] \in StoredEvents
          /\ DATUM_CACHE[i][2] = Stored(DATUM_CACHE[i][1])
    /\ \A t \in Threads :
          /\ calls[t].pc \in {"resource", "check", "hit", "construct", "store", "call"} =>
                calls[t].datum = Stored(calls[t].eid)
          /\ (calls[t].pc = "idle" /\ calls[t].eid # None) =>
                LET res == ResourceOf(calls[t].eid) IN
                IF LookedUp(res, Global) = None THEN calls[t].err = "KeyError"
                ELSE IF CtorFails(res, Global) THEN calls[t].err = "CtorError"
                ELSE /\ calls[t].err = None
                     /\ calls[t].ret.kwargs = Stored(calls[t].eid).datum_kwargs
                     /\ calls[t].ret.handler.rid = res
                     /\ calls[t].ret.handler.cls = LookedUp(res, Global)

\* the two threads resolved sibling datums at the same time: both missed the
\* handler cache, each constructed an instance and called it with the kwargs
\* of its own datum, while the datum cache holds other datums of the resource
C19_Witness ==
    /\ calls[1].pc = "idle" /\ calls[2].pc = "idle"
    /\ calls[1].eid = "D1" /\ calls[2].eid = "D2"
    /\ calls[1].err = None /\ calls[2].err = None
    /\ calls[1].ret.kwargs = 0 /\ calls[2].ret.kwargs = 4
    /\ calls[1].ret.handler # calls[2].ret.handler
    /\ ~LRUHas(DATUM_CACHE, "D1")
    /\ DATUM_CACHE # <<>>

====
